---- MODULE Spec2Model ----
(***************************************************************************)
(* Model of the two snake implementations of the repository:               *)
(*   oop.py  - class SnakeGame driven by run_game                          *)
(*   main.py - module-level board/snake/food/points driven by main         *)
(* A coordinate is the pair <<row, column>>.  Python's None and the empty  *)
(* list are both the empty tuple; a string variable that holds None holds  *)
(* the string "None".                                                      *)
(***************************************************************************)
EXTENDS Integers, Sequences, FiniteSets, TLC

VARIABLES impl, height, width, snake, food, score, board, pc,
          user_input, direction, location, drawn, game_in_progress

vars == <<impl, height, width, snake, food, score, board, pc,
          user_input, direction, location, drawn, game_in_progress>>

\* Largest board explored.
MaxHeight == 2
MaxWidth == 3

None == <<>>

\* main.py cell markers
EMPTY == " "
FOOD == "o"
SNAKE_BODY == "S"

\* oop.py Direction values / main.py direction constants
Direction == {"w", "s", "a", "d"}
GameOption == {"quit"}
MainDirections == {"W", "S", "A", "D"}
QUIT == "QUIT"

\* Raw lines the user may type.
RawInputs == {"w", "s", "a", "d", "W", "S", "A", "D", "quit", "QUIT", "Quit", "x", ""}

lower(s) ==
  CASE s = "W" -> "w" [] s = "S" -> "s" [] s = "A" -> "a" [] s = "D" -> "d"
    [] s \in {"QUIT", "Quit"} -> "quit"
    [] OTHER -> s

upper(s) ==
  CASE s = "w" -> "W" [] s = "s" -> "S" [] s = "a" -> "A" [] s = "d" -> "D"
    [] s \in {"quit", "Quit"} -> "QUIT"
    [] s = "x" -> "X"
    [] OTHER -> s

Cells == (0 .. height - 1) \X (0 .. width - 1)

Range(s) == {s[i] : i \in 1 .. Len(s)}

----------------------------------------------------------------------------
\* oop.py

\* variant: the test looks the input up in both enumerations
is_direction_or_option(s) == s \in Direction \cup GameOption

is_direction(s) == s \in Direction

is_game_option(s) == s \in GameOption

is_valid(s) == is_direction(s) \/ is_game_option(s)

\* variant: UP and DOWN exchanged
new_location_from_direction_swapped(loc, d) ==
  IF d = "w" THEN <<loc[1] + 1, loc[2]>>
  ELSE IF d = "s" THEN <<loc[1] - 1, loc[2]>>
  ELSE IF d = "a" THEN <<loc[1], loc[2] - 1>>
  ELSE IF d = "d" THEN <<loc[1], loc[2] + 1>>
  ELSE None

new_location_from_direction(loc, d) ==
  IF d = "w" THEN <<loc[1] - 1, loc[2]>>
  ELSE IF d = "s" THEN <<loc[1] + 1, loc[2]>>
  ELSE IF d = "a" THEN <<loc[1], loc[2] - 1>>
  ELSE IF d = "d" THEN <<loc[1], loc[2] + 1>>
  ELSE None

head(s) == s[1]

\* variant: the tail is kept on every move
update_snake_never_pop(s, loc, grow_snake) == <<loc>> \o s

\* variant: the tail is popped on every move
update_snake_always_pop(s, loc, grow_snake) ==
  SubSeq(<<loc>> \o s, 1, Len(s))

\* insert(0, location); pop() unless growing
update_snake(s, loc, grow_snake) ==
  IF grow_snake THEN <<loc>> \o s
  ELSE SubSeq(<<loc>> \o s, 1, Len(s))

\* variant: the last cell, which a move vacates, is not counted
is_part_of_snake_but_tail(s, loc) == \E i \in 1 .. Len(s) - 1 : s[i] = loc

is_part_of_snake(s, loc) == loc \in Range(s)

\* variant: the lower edge of the board tested with > instead of >=
invalid_location_off_by_one(loc) ==
  LET invalid_height == loc[1] > height \/ loc[1] < 0
      invalid_width == loc[2] >= width \/ loc[2] < 0
      is_snake == is_part_of_snake(snake, loc)
  IN invalid_height \/ invalid_width \/ is_snake

invalid_location(loc) ==
  LET invalid_height == loc[1] >= height \/ loc[1] < 0
      invalid_width == loc[2] >= width \/ loc[2] < 0
      is_snake == is_part_of_snake(snake, loc)
  IN invalid_height \/ invalid_width \/ is_snake

\* variant: the draw is not tested against the snake
random_location_ignores_snake(loc) ==
  LET not_food == food # loc
  IN not_food

\* the test that ends the loop of random_location
random_location(loc) ==
  LET not_food == food # loc
      not_snake == snake = None \/ ~is_part_of_snake(snake, loc)
  IN not_food /\ not_snake

\* one draw of the loop of random_location: Location(randint, randint)
random_draw(loc) ==
  /\ impl = "oop"
  /\ pc \in {"initialize_food", "initialize_snake", "respawn"}
  /\ ~drawn
  /\ location' = loc
  /\ drawn' = TRUE
  /\ UNCHANGED <<impl, height, width, snake, food, score, board, pc,
                 user_input, direction, game_in_progress>>

\* randint(0, height - 1) / randint(0, width - 1) on an empty range: the
\* ValueError leaves the draw, the placement and the program (nothing in
\* either file catches it)
randint_ValueError ==
  /\ pc \in {"initialize_food", "initialize_snake", "respawn", "place_food",
             "new_snake"}
  /\ ~drawn
  /\ height - 1 < 0 \/ width - 1 < 0
  /\ pc' = "ValueError"
  /\ UNCHANGED <<impl, height, width, snake, food, score, board, user_input,
                 direction, location, drawn, game_in_progress>>

\* initialize, first placement: the food
initialize_food ==
  /\ impl = "oop"
  /\ pc = "initialize_food"
  /\ drawn
  /\ drawn' = FALSE
  /\ IF random_location(location)
       THEN food' = location /\ pc' = "initialize_snake"
       ELSE UNCHANGED <<food, pc>>
  /\ UNCHANGED <<impl, height, width, snake, score, board, user_input,
                 direction, location, game_in_progress>>

\* initialize, second placement: the snake's start
initialize_snake ==
  /\ impl = "oop"
  /\ pc = "initialize_snake"
  /\ drawn
  /\ drawn' = FALSE
  /\ IF random_location(location)
       THEN snake' = <<location>> /\ pc' = "input"
       ELSE UNCHANGED <<snake, pc>>
  /\ UNCHANGED <<impl, height, width, food, score, board, user_input,
                 direction, location, game_in_progress>>

\* one round of the loop of InputHandler.process_user_input, and run_game's
\* use of its result
process_user_input(raw) ==
  /\ impl = "oop"
  /\ pc = "input"
  /\ user_input' = lower(raw)
  /\ IF is_valid(lower(raw))
       THEN IF is_direction(lower(raw))
              THEN direction' = lower(raw) /\ pc' = "advance"
              ELSE direction' = "None" /\ pc' = "input"
       ELSE UNCHANGED <<direction, pc>>
  /\ UNCHANGED <<impl, height, width, snake, food, score, board, location,
                 drawn, game_in_progress>>

\* variant: run_game does not break when update_game returns False
update_game_no_break ==
  /\ impl = "oop"
  /\ pc = "advance"
  /\ LET snake_head == head(snake)
         new_head == new_location_from_direction(snake_head, direction)
     IN IF invalid_location(new_head)
          THEN /\ game_in_progress' = "False"
               /\ pc' = "input"
               /\ UNCHANGED <<snake, score>>
          ELSE LET food_consumed == food = new_head
               IN /\ snake' = update_snake(snake, new_head, food_consumed)
                  /\ IF food_consumed
                       THEN /\ score' = score + 1
                            /\ pc' = "respawn"
                            /\ UNCHANGED game_in_progress
                       ELSE /\ game_in_progress' = "True"
                            /\ pc' = "input"
                            /\ UNCHANGED score
  /\ UNCHANGED <<impl, height, width, food, board, user_input, direction,
                 location, drawn>>

\* variant: the new head is inserted before the location is tested
update_game_insert_first ==
  /\ impl = "oop"
  /\ pc = "advance"
  /\ LET snake_head == head(snake)
         new_head == new_location_from_direction(snake_head, direction)
     IN IF invalid_location(new_head)
          THEN /\ snake' = <<new_head>> \o snake
               /\ game_in_progress' = "False"
               /\ pc' = "over"
               /\ UNCHANGED score
          ELSE LET food_consumed == food = new_head
               IN /\ snake' = update_snake(snake, new_head, food_consumed)
                  /\ IF food_consumed
                       THEN /\ score' = score + 1
                            /\ pc' = "respawn"
                            /\ UNCHANGED game_in_progress
                       ELSE /\ game_in_progress' = "True"
                            /\ pc' = "input"
                            /\ UNCHANGED score
  /\ UNCHANGED <<impl, height, width, food, board, user_input, direction,
                 location, drawn>>

update_game ==
  /\ impl = "oop"
  /\ pc = "advance"
  /\ LET snake_head == head(snake)
         new_head == new_location_from_direction(snake_head, direction)
     IN IF invalid_location(new_head)
          THEN /\ game_in_progress' = "False"
               /\ pc' = "over"
               /\ UNCHANGED <<snake, score>>
          ELSE LET food_consumed == food = new_head
               IN /\ snake' = update_snake(snake, new_head, food_consumed)
                  /\ IF food_consumed
                       THEN /\ score' = score + 1
                            /\ pc' = "respawn"
                            /\ UNCHANGED game_in_progress
                       ELSE /\ game_in_progress' = "True"
                            /\ pc' = "input"
                            /\ UNCHANGED score
  /\ UNCHANGED <<impl, height, width, food, board, user_input, direction,
                 location, drawn>>

\* the loop of random_location called by update_game after a growth move
respawn ==
  /\ impl = "oop"
  /\ pc = "respawn"
  /\ drawn
  /\ drawn' = FALSE
  /\ IF random_location(location)
       THEN food' = location /\ game_in_progress' = "True" /\ pc' = "input"
       ELSE UNCHANGED <<food, game_in_progress, pc>>
  /\ UNCHANGED <<impl, height, width, snake, score, board, user_input,
                 direction, location>>

----------------------------------------------------------------------------
\* main.py

is_width_invalid(w) ==
  LET too_far_left == w < 0
      too_far_right == w > width - 1
  IN too_far_left \/ too_far_right

is_height_invalid(h) ==
  LET too_far_left == h < 0
      too_far_right == h > height - 1
  IN too_far_left \/ too_far_right

\* variant: any marked cell, the food's included, is taken for the snake
is_snake_body_not_empty(h, w) == board[<<h, w>>] # EMPTY

is_snake_body(h, w) == board[<<h, w>>] = SNAKE_BODY

\* "or" short-circuits: the grid is read only for a cell on the board
is_not_valid(h, w) ==
  IF is_width_invalid(w) \/ is_height_invalid(h) THEN TRUE
  ELSE is_snake_body(h, w)

get_new_head(d) ==
  LET hd == snake[1]
  IN IF d = "W" THEN <<hd[1] - 1, hd[2]>>
     ELSE IF d = "S" THEN <<hd[1] + 1, hd[2]>>
     ELSE IF d = "A" THEN <<hd[1], hd[2] - 1>>
     ELSE IF d = "D" THEN <<hd[1], hd[2] + 1>>
     ELSE None

is_food(h, w) == food = <<h, w>>

valid_input(s) == s \in MainDirections \cup {QUIT}

\* where setup_board goes: place_food if there is no food, then new_snake
\* if there is no snake, then main shows the board and asks for input
setup_board(f, s) ==
  IF f = None THEN "place_food"
  ELSE IF s = <<>> THEN "new_snake"
  ELSE "input"

\* h, w = random_board_location() in place_food and new_snake
random_board_location(loc) ==
  /\ impl = "main"
  /\ pc \in {"place_food", "new_snake"}
  /\ ~drawn
  /\ location' = loc
  /\ drawn' = TRUE
  /\ UNCHANGED <<impl, height, width, snake, food, score, board, pc,
                 user_input, direction, game_in_progress>>

\* the loop test of place_food on the cell drawn, and what follows it
place_food ==
  /\ impl = "main"
  /\ pc = "place_food"
  /\ drawn
  /\ drawn' = FALSE
  /\ IF is_not_valid(location[1], location[2])
       THEN UNCHANGED <<board, food, pc>>
       ELSE /\ board' = [board EXCEPT ![location] = FOOD]
            /\ food' = location
            /\ pc' = setup_board(location, snake)
  /\ UNCHANGED <<impl, height, width, snake, score, user_input, direction,
                 location, game_in_progress>>

\* the loop test of new_snake on the cell drawn, and what follows it
new_snake ==
  /\ impl = "main"
  /\ pc = "new_snake"
  /\ drawn
  /\ drawn' = FALSE
  /\ IF is_not_valid(location[1], location[2])
       THEN UNCHANGED <<board, snake, pc>>
       ELSE /\ board' = [board EXCEPT ![location] = SNAKE_BODY]
            /\ snake' = <<location>> \o snake
            /\ pc' = "input"
  /\ UNCHANGED <<impl, height, width, food, score, user_input, direction,
                 location, game_in_progress>>

\* one round of the loop of get_input, and main's test for QUIT
get_input(raw) ==
  /\ impl = "main"
  /\ pc = "input"
  /\ user_input' = upper(raw)
  /\ IF valid_input(upper(raw))
       THEN /\ direction' = upper(raw)
            /\ pc' = IF upper(raw) = QUIT THEN "quit" ELSE "advance"
       ELSE UNCHANGED <<direction, pc>>
  /\ UNCHANGED <<impl, height, width, snake, food, score, board, location,
                 drawn, game_in_progress>>

\* variant: the cell the tail leaves keeps its SNAKE_BODY mark
move_snake_keeps_tail_mark ==
  /\ impl = "main"
  /\ pc = "advance"
  /\ LET new_head == get_new_head(direction)
         h == new_head[1]
         w == new_head[2]
     IN IF is_not_valid(h, w)
          THEN /\ game_in_progress' = "False"
               /\ pc' = "over"
               /\ UNCHANGED <<snake, board, food, score>>
          ELSE LET grown == <<new_head>> \o snake
               IN /\ game_in_progress' = "True"
                  /\ IF ~is_food(h, w)
                       THEN /\ snake' = SubSeq(grown, 1, Len(grown) - 1)
                            /\ board' = [board EXCEPT ![new_head] = SNAKE_BODY]
                            /\ UNCHANGED <<food, score>>
                       ELSE /\ snake' = grown
                            /\ board' = [board EXCEPT ![new_head] = SNAKE_BODY]
                            /\ food' = None
                            /\ score' = score + 1
                  /\ pc' = setup_board(food', snake')
  /\ UNCHANGED <<impl, height, width, user_input, direction, location, drawn>>

\* move_snake and, when it returns True, the setup_board of the next turn
move_snake ==
  /\ impl = "main"
  /\ pc = "advance"
  /\ LET new_head == get_new_head(direction)
         h == new_head[1]
         w == new_head[2]
     IN IF is_not_valid(h, w)
          THEN /\ game_in_progress' = "False"
               /\ pc' = "over"
               /\ UNCHANGED <<snake, board, food, score>>
          ELSE LET grown == <<new_head>> \o snake
               IN /\ game_in_progress' = "True"
                  /\ IF ~is_food(h, w)
                       THEN LET tail == grown[Len(grown)]
                            IN /\ snake' = SubSeq(grown, 1, Len(grown) - 1)
                               /\ board' = [[board EXCEPT ![new_head] = SNAKE_BODY]
                                               EXCEPT ![tail] = EMPTY]
                               /\ UNCHANGED <<food, score>>
                       ELSE /\ snake' = grown
                            /\ board' = [board EXCEPT ![new_head] = SNAKE_BODY]
                            /\ food' = None
                            /\ score' = score + 1
                  /\ pc' = setup_board(food', snake')
  /\ UNCHANGED <<impl, height, width, user_input, direction, location, drawn>>

----------------------------------------------------------------------------
\* The two programs as run by run_game, with the --height and --width of the
\* command line (any integer, the non-positive ones included).

Init ==
  /\ impl \in {"oop", "main"}
  /\ height \in (-1) .. MaxHeight
  /\ width \in (-1) .. MaxWidth
  /\ snake = <<>>
  /\ food = None
  /\ score = 0
  /\ board = [c \in (0 .. height - 1) \X (0 .. width - 1) |-> EMPTY]
  /\ pc = IF impl = "oop" THEN "initialize_food" ELSE setup_board(None, <<>>)
  /\ user_input = "None"
  /\ direction = "None"
  /\ location = None
  /\ drawn = FALSE
  /\ game_in_progress = "None"

\* a draw, of any cell of the board
Draw ==
  \E loc \in Cells :
    \/ random_draw(loc)
    \/ random_board_location(loc)

\* a draw of a cell that the loop's test will accept
DrawEmpty ==
  \E loc \in Cells :
    \/ random_draw(loc) /\ random_location(loc)
    \/ random_board_location(loc) /\ ~is_not_valid(loc[1], loc[2])

Placement ==
  \/ initialize_food
  \/ initialize_snake
  \/ respawn
  \/ place_food
  \/ new_snake

Input ==
  \E raw \in RawInputs :
    \/ process_user_input(raw)
    \/ get_input(raw)

Next ==
  \/ Draw
  \/ randint_ValueError
  \/ Placement
  \/ Input
  \/ update_game
  \/ move_snake

Spec == Init /\ [][Next]_vars

\* The program keeps running, and random sampling that draws again and again
\* draws every cell again and again, the empty ones included.
FairSpec == Spec /\ WF_vars(Next) /\ SF_vars(DrawEmpty)

----------------------------------------------------------------------------
\* The engine alone: a caller that hands update_game / move_snake any of the
\* four directions whenever the previous call has returned, whatever it
\* returned.

engine_call(d) ==
  /\ pc \in {"input", "over"}
  /\ d \in (IF impl = "oop" THEN Direction ELSE MainDirections)
  /\ direction' = d
  /\ pc' = "advance"
  /\ UNCHANGED <<impl, height, width, snake, food, score, board, user_input,
                 location, drawn, game_in_progress>>

NextEngine ==
  \/ Draw
  \/ randint_ValueError
  \/ Placement
  \/ \E d \in Direction \cup MainDirections : engine_call(d)
  \/ update_game
  \/ move_snake

EngineSpec == Init /\ [][NextEngine]_vars

----------------------------------------------------------------------------
\* Vocabulary of the properties, stated without the operators of the model.

Delta(d) ==
  CASE d \in {"w", "W"} -> <<-1, 0>>
    [] d \in {"s", "S"} -> <<1, 0>>
    [] d \in {"a", "A"} -> <<0, -1>>
    [] d \in {"d", "D"} -> <<0, 1>>

InBounds(c) == 0 <= c[1] /\ c[1] < height /\ 0 <= c[2] /\ c[2] < width

NewHead == <<snake[1][1] + Delta(direction)[1], snake[1][2] + Delta(direction)[2]>>

OnSnake(c) == \E i \in 1 .. Len(snake) : snake[i] = c

PairwiseDistinct(s) == \A i, j \in 1 .. Len(s) : i # j => s[i] # s[j]

ButLast(s) == [i \in 1 .. Len(s) - 1 |-> s[i]]

SamplingPcs == {"initialize_food", "initialize_snake", "respawn", "place_food", "new_snake"}

\* C1: after every advance that returned Continuing (update_game in oop.py;
\* move_snake followed by setup_board in main.py) the snake cells are pairwise
\* distinct and on the board, and the food is on the board and off the snake.
C1_InvariantPreservation ==
  (pc = "input" /\ game_in_progress = "True") =>
    /\ PairwiseDistinct(snake)
    /\ \A i \in 1 .. Len(snake) : InBounds(snake[i])
    /\ food # None => (InBounds(food) /\ ~OnSnake(food))

\* a turn after two growth moves, food respawned
C1_Witness ==
  pc = "input" /\ game_in_progress = "True" /\ score >= 2 /\ Len(snake) >= 3
    /\ food # None

C3_GrowthLaw ==
  [][(pc = "advance" /\ pc' # "over") =>
       IF NewHead = food
         THEN Len(snake') = Len(snake) + 1 /\ score' = score + 1
         ELSE Len(snake') = Len(snake) /\ score' = score]_vars

\* the turn after the first growth move
C3_Witness ==
  pc = "input" /\ game_in_progress = "True" /\ score = 1 /\ Len(snake) = 2

\* C4: an accepted move puts head + delta(direction) in front of the previous
\* body, whose last cell is dropped iff no food was consumed.
C4_HeadFollowsDirection ==
  [][(pc = "advance" /\ pc' # "over") =>
       snake' = IF NewHead = food THEN <<NewHead>> \o snake
                ELSE <<NewHead>> \o ButLast(snake)]_vars

\* after an accepted move of a snake of three cells or more
C4_Witness ==
  /\ pc \in {"input", "place_food", "respawn"}
  /\ direction \in Direction \cup MainDirections
  /\ Len(snake) >= 3
  /\ snake[1] = <<snake[2][1] + Delta(direction)[1], snake[2][2] + Delta(direction)[2]>>

\* C5: a rejected move changes neither snake, food, score nor grid.
C5_RejectionLeavesState ==
  [][(pc = "advance" /\ game_in_progress' = "False") =>
       (snake' = snake /\ food' = food /\ score' = score /\ board' = board)]_vars

\* a rejected move of a grown snake with food on the board
C5_Witness ==
  pc = "over" /\ game_in_progress = "False" /\ score >= 1 /\ food # None

\* C6: once an advance has returned GameOver, every later call is rejected and
\* leaves snake, food and score as they were; none returns Continuing.
C6_TerminalAbsorbing ==
  [][game_in_progress = "False" =>
       (game_in_progress' = "False" /\ snake' = snake /\ food' = food
          /\ score' = score)]_vars

\* C7: on every board of height >= 1 and width >= 1 SnakeGame.initialize
\* returns, with the food and the snake's single cell distinct and on the
\* board, and score 0.
C7_InitializeReturns ==
  (impl = "oop" /\ height >= 1 /\ width >= 1) =>
    <>(/\ pc = "input"
       /\ Len(snake) = 1
       /\ food # None /\ food # snake[1]
       /\ InBounds(food) /\ InBounds(snake[1])
       /\ score = 0)

\* C8: in main.py, whenever food and snake both exist (from the first
\* setup_board on), the food is on no cell of the snake.
C8_FoodOffSnake ==
  (impl = "main" /\ food # None /\ snake # <<>>) => ~OnSnake(food)

\* C9: every placement by rejection sampling comes to an end, by returning an
\* empty cell or by failing with BoardFull.
C9_PlacementTerminates ==
  (pc \in SamplingPcs) ~> (pc \notin SamplingPcs)

\* C10: on a 1x1 board the game is initialized, and no advance is accepted.
C10_OneByOne ==
  (height = 1 /\ width = 1) =>
    (<>(pc = "input") /\ [](game_in_progress # "True"))

\* C11 (as claimed): a non-growth move of a snake of two or more cells onto the
\* cell of its current last element is accepted, and the snake shifts.
C11_TailMoveAccepted ==
  [][(pc = "advance" /\ Len(snake) >= 2 /\ NewHead = snake[Len(snake)]
        /\ NewHead # food) =>
       (pc' # "over" /\ snake' = <<NewHead>> \o ButLast(snake))]_vars

\* C11 (amended): such a move is reported as GameOver and the snake stays as
\* it was - the tail cell counts as occupied although the move would vacate it.
C11_TailMoveRejected ==
  [][(pc = "advance" /\ Len(snake) >= 2 /\ NewHead = snake[Len(snake)]
        /\ NewHead # food) =>
       (pc' = "over" /\ game_in_progress' = "False" /\ snake' = snake)]_vars

\* a snake of two cells was turned back onto its own tail, which is no food
C11_Witness ==
  /\ pc = "over" /\ game_in_progress = "False"
  /\ Len(snake) = 2
  /\ NewHead = snake[2]
  /\ NewHead # food

\* C12: whenever update_game / move_snake is about to run, the direction it is
\* handed is one of the four directions of its implementation.
C12_OnlyDirectionsReachEngine ==
  pc = "advance" =>
    direction \in (IF impl = "oop" THEN Direction ELSE MainDirections)

\* a quit or an unaccepted line was read, and the transition was not invoked
C12_Witness ==
  /\ pc \in {"input", "quit"}
  /\ user_input \in {"quit", "QUIT", "x", "X", ""}
  /\ snake # <<>>

\* C13: a game of height <= 0 or width <= 0 is rejected with InvalidExtent
\* before any placement is attempted: nothing else happens to it, no other
\* failure included.
C13_InvalidExtentRejected ==
  (height <= 0 \/ width <= 0) =>
    pc \in {"initialize_food", "place_food", "InvalidExtent"}

C15_QuitEndsLoop ==
  user_input \in {"quit", "QUIT"} => pc = "quit"

\* C16: once the snake exists, score = len(snake) - 1; neither score nor
\* length ever decreases, and each changes, by exactly 1, only on a move that
\* consumes food.
C16_ScoreIsLengthMinusOne ==
  /\ [](snake # <<>> => score = Len(snake) - 1)
  /\ [][/\ score' >= score
        /\ Len(snake') >= Len(snake)
        /\ (snake # <<>> /\ (score' # score \/ Len(snake') # Len(snake))) =>
             /\ pc = "advance" /\ pc' # "over" /\ NewHead = food
             /\ score' = score + 1
             /\ Len(snake') = Len(snake) + 1]_vars

\* three food-consuming moves have been made
C16_Witness ==
  pc = "input" /\ score = 3 /\ Len(snake) = 4

\* C17: in main.py a cell of the grid holds SNAKE_BODY iff its coordinate is an
\* element of the snake list, so is_snake_body agrees with membership in the
\* list.
C17_GridMarksSnake ==
  impl = "main" =>
    \A c \in Cells : (board[c] = SNAKE_BODY) <=> OnSnake(c)

\* main.py between turns, after a move that took the tail off a cell: a cell
\* next to the snake's last one is off the snake and not marked
C17_Witness ==
  /\ impl = "main" /\ pc = "input" /\ game_in_progress = "True"
  /\ Len(snake) >= 2
  /\ \E c \in Cells :
       /\ ~OnSnake(c) /\ board[c] = EMPTY
       /\ (c[1] - snake[Len(snake)][1]) * (c[1] - snake[Len(snake)][1])
            + (c[2] - snake[Len(snake)][2]) * (c[2] - snake[Len(snake)][2]) = 1

\* C18: in main.py, whenever the board is shown (after setup_board), exactly
\* one cell is marked FOOD, it is the cell the food variable names, and every
\* other cell off the snake is EMPTY.
C18_OneFoodCellShown ==
  (impl = "main" /\ pc = "input") =>
    /\ food # None
    /\ \A c \in Cells :
         /\ (board[c] = FOOD) <=> (c = food)
         /\ (~OnSnake(c) /\ c # food) => board[c] = EMPTY

\* C19: the drivers apply the transition once per turn (every call follows an
\* input of its own), the first call that returns False ends the loop (nothing
\* happens after it), and the score then reported is the number of
\* food-consuming moves made, that is the number of cells the snake has grown
\* by.
C19_OneCallPerTurnUntilOver ==
  /\ [][/\ pc' = "advance" => pc = "input"
        /\ (pc = "advance" /\ game_in_progress' = "False") => pc' = "over"
        /\ game_in_progress' = "False" => pc = "advance"
        /\ pc # "over"]_vars
  /\ [](pc = "over" => (game_in_progress = "False" /\ score = Len(snake) - 1))

\* a game ended by a rejected move after two food-consuming moves
C19_Witness ==
  pc = "over" /\ score = 2 /\ Len(snake) = 3

====
